---- MODULE Spec2Model ----
(***************************************************************************)
(* comforticons: the identicon generation core.                            *)
(*                                                                         *)
(*   generators/base.py   BaseGenerator (entropy comparison)               *)
(*   generators/image.py  PixelGenerator (colour choice, grid, blocks)     *)
(*   preprocessors/*.py   BasePreprocessor, HashPreprocessor, MD5, SHA1    *)
(*   main.py              Identicon (the preprocessors -> generator chain) *)
(*                                                                         *)
(* Strings are sequences of Unicode code points, byte lists are sequences  *)
(* of integers, Python's 0-based indices become 1-based sequence indices   *)
(* (the matrix keeps 0-based rows and columns).                            *)
(***************************************************************************)
EXTENDS Integers, Sequences, FiniteSets, TLC

VARIABLES
    gen,         \* a PixelGenerator used directly by a caller
    call,        \* the last direct gen.generate(data, avatar_size, padding)
    lists,       \* heap: list objects holding preprocessors
    gens,        \* heap: generator objects
    identicons,  \* the Identicon instances: references into the two heaps
    built,       \* per Identicon: built from the defaults, changed by its owner
    callers      \* per caller: position inside Identicon.generate and locals

vars == <<gen, call, lists, gens, identicons, built, callers>>

(***************************************************************************)
(* Bounds of the model.                                                    *)
(***************************************************************************)
MaxGridSize == 5      \* grid dimensions 1..MaxGridSize in the grid checks
MaxEntropySize == 10  \* grid dimensions 1..MaxEntropySize for the entropy formula
MaxPalette == 3       \* palettes of 1..MaxPalette colours (and the full table)
MaxAvatar == 13       \* avatar_size 1..MaxAvatar (and the two named sizes)
MaxPadding == 2       \* padding 0..MaxPadding
MaxHexLen == 8        \* hex strings of 0..MaxHexLen characters in the bounds check
MaxChain == 2         \* explicit preprocessor lists of 0..MaxChain entries
NumCallers == 2       \* concurrent callers of Identicon.generate
MaxIdenticons == 2    \* Identicon instances in the shared-defaults model

(***************************************************************************)
(* generators/image.py: the named colour table.                            *)
(***************************************************************************)
HTML_COLORS == <<
    "#F0F8FF", "#FAEBD7", "#00FFFF", "#7FFFD4", "#F0FFFF", "#F5F5DC", "#FFE4C4",
    "#000000", "#FFEBCD", "#0000FF", "#8A2BE2", "#A52A2A", "#DEB887", "#5F9EA0",
    "#7FFF00", "#D2691E", "#FF7F50", "#6495ED", "#FFF8DC", "#DC143C", "#00FFFF",
    "#00008B", "#008B8B", "#B8860B", "#A9A9A9", "#006400", "#BDB76B", "#8B008B",
    "#556B2F", "#FF8C00", "#9932CC", "#8B0000", "#E9967A", "#8FBC8F", "#483D8B",
    "#2F4F4F", "#00CED1", "#9400D3", "#FF1493", "#00BFFF", "#696969", "#1E90FF",
    "#B22222", "#FFFAF0", "#228B22", "#FF00FF", "#DCDCDC", "#F8F8FF", "#FFD700",
    "#DAA520", "#808080", "#008000", "#ADFF2F", "#F0FFF0", "#FF69B4", "#CD5C5C",
    "#4B0082", "#FFFFF0", "#F0E68C", "#E6E6FA", "#FFF0F5", "#7CFC00", "#FFFACD",
    "#ADD8E6", "#F08080", "#E0FFFF", "#FAFAD2", "#D3D3D3", "#90EE90", "#FFB6C1",
    "#FFA07A", "#20B2AA", "#87CEFA", "#778899", "#B0C4DE", "#FFFFE0", "#00FF00",
    "#32CD32", "#FAF0E6", "#FF00FF", "#800000", "#66CDAA", "#0000CD", "#BA55D3",
    "#9370D8", "#3CB371", "#7B68EE", "#00FA9A", "#48D1CC", "#C71585", "#191970",
    "#F5FFFA", "#FFE4E1", "#FFE4B5", "#FFDEAD", "#000080", "#FDF5E6", "#808000",
    "#6B8E23", "#FFA500", "#FF4500", "#DA70D6", "#EEE8AA", "#98FB98", "#AFEEEE",
    "#D87093", "#FFEFD5", "#FFDAB9", "#CD853F", "#FFC0CB", "#DDA0DD", "#B0E0E6",
    "#800080", "#FF0000", "#BC8F8F", "#4169E1", "#8B4513", "#FA8072", "#F4A460",
    "#2E8B57", "#FFF5EE", "#A0522D", "#C0C0C0", "#87CEEB", "#6A5ACD", "#708090",
    "#FFFAFA", "#00FF7F", "#4682B4", "#D2B48C", "#008080", "#D8BFD8", "#FF6347",
    "#40E0D0", "#EE82EE", "#F5DEB3", "#FFFFFF", "#F5F5F5", "#FFFF00", "#9ACD32"
>>

(***************************************************************************)
(* Strings.  Code points below 256 are modelled; int(s, 16) of a pair of   *)
(* characters follows Python: two hex digits, or one hex digit with a sign *)
(* in front, or one hex digit beside a whitespace character.               *)
(***************************************************************************)
IsHex(c) == (c \in 48..57) \/ (c \in 97..102) \/ (c \in 65..70)

HexVal(c) ==
    IF c \in 48..57 THEN c - 48
    ELSE IF c \in 97..102 THEN c - 87
    ELSE c - 55

IsSpace(c) == c \in {9, 10, 11, 12, 13, 32, 133, 160}

\* int(data[i*2 : i*2+2], 16) on the two characters a, b
Int16(a, b) ==
    IF IsHex(a) /\ IsHex(b) THEN [ok |-> TRUE, value |-> 16 * HexVal(a) + HexVal(b)]
    ELSE IF a = 43 /\ IsHex(b) THEN [ok |-> TRUE, value |-> HexVal(b)]
    ELSE IF a = 45 /\ IsHex(b) THEN [ok |-> TRUE, value |-> 0 - HexVal(b)]
    ELSE IF IsSpace(a) /\ IsHex(b) THEN [ok |-> TRUE, value |-> HexVal(b)]
    ELSE IF IsHex(a) /\ IsSpace(b) THEN [ok |-> TRUE, value |-> HexVal(a)]
    ELSE [ok |-> FALSE, value |-> 0]

\* one digit of a hexdigest: "0123456789abcdef"[v]
HexChar(v) == IF v < 10 THEN 48 + v ELSE 87 + v

\* bytes -> hex string, two lower-case digits per byte (hexdigest)
ToHex(bytes) ==
    [i \in 1..(2 * Len(bytes)) |->
        IF i % 2 = 1 THEN HexChar(bytes[(i + 1) \div 2] \div 16)
        ELSE HexChar(bytes[i \div 2] % 16)]

Pow2(k) == IF k = 0 THEN 1 ELSE IF k = 1 THEN 2 ELSE IF k = 2 THEN 4
           ELSE IF k = 3 THEN 8 ELSE IF k = 4 THEN 16 ELSE IF k = 5 THEN 32
           ELSE IF k = 6 THEN 64 ELSE 128

(***************************************************************************)
(* generators/base.py and generators/image.py                              *)
(***************************************************************************)
\* PixelGenerator.__init__: the entropy the generator declares it requires
\* (variant: the middle column of an odd grid is not counted)
RequiredEntropy_NoOddColumn(size) == (size \div 2) * size + 8

RequiredEntropy(size) == ((size \div 2) + (size % 2)) * size + 8

\* PixelGenerator(size, foreground_colors, background, image_format, invert)
PixelGenerator(size, foreground_colors, background, image_format, invert) ==
    [size |-> size,
     entropy |-> RequiredEntropy(size),
     foreground_colors |-> foreground_colors,
     background |-> background,
     format |-> image_format,
     invert |-> invert]

\* the default arguments of PixelGenerator.generate
DefaultAvatarSize == 120
DefaultPadding == 0

\* the default arguments of PixelGenerator.__init__
DefaultGenerator == PixelGenerator(5, HTML_COLORS, "#00000000", "png", FALSE)

\* BaseGenerator.check_entropy
\* (variant: equal entropies are rejected)
check_entropy_Strict(self, provided_entropy) == provided_entropy > self.entropy

check_entropy(self, provided_entropy) == provided_entropy >= self.entropy

\* PixelGenerator._data_to_byte_list: len(data) // 2 bytes, a trailing odd
\* character is dropped; a pair int() rejects raises ValueError
_data_to_byte_list(data) ==
    LET n == Len(data) \div 2
        parsed == [i \in 1..n |-> Int16(data[2 * i - 1], data[2 * i])]
    IN  IF \E i \in 1..n : ~parsed[i].ok
        THEN [raised |-> "ValueError", value |-> <<>>]
        ELSE [raised |-> "none", value |-> [i \in 1..n |-> parsed[i].value]]

\* PixelGenerator._get_bit: data[n // 8] >> (8 - (n % 8 + 1)) & 1 == 1
\* (the index n // 8 is in range when this is applied)
\* (variant: least significant bit first)
_get_bit_LsbFirst(n, data) == (data[n \div 8 + 1] \div Pow2(n % 8)) % 2 = 1

_get_bit(n, data) == (data[n \div 8 + 1] \div Pow2(8 - ((n % 8) + 1))) % 2 = 1

\* whether data[n // 8] exists (otherwise _get_bit raises IndexError)
BitInRange(n, data) == n \div 8 < Len(data)

\* lines 283-291: (background, foreground), swapped when invert is set
\* (variant: invert is ignored)
SelectColors_NoSwap(self, data) ==
    [background |-> self.background,
     foreground |-> self.foreground_colors[(data[1] % Len(self.foreground_colors)) + 1]]

SelectColors(self, data) ==
    LET background == self.background
        foreground == self.foreground_colors[(data[1] % Len(self.foreground_colors)) + 1]
    IN  IF self.invert
        THEN [background |-> foreground, foreground |-> background]
        ELSE [background |-> background, foreground |-> foreground]

\* line 304: matrix = [[False] * size for _ in range(size)]
EmptyMatrix(size) == [row \in 0..(size - 1) |-> [column \in 0..(size - 1) |-> FALSE]]

\* lines 316-322: the cells an iteration marks when its bit is set, the cell
\* (row, column) and its reflection (the central column is marked twice)
\* (variant: the reflection is not marked)
MarkedCells_NoMirror(cell, size) ==
    LET column == cell \div size
        row == cell % size
    IN  {<<row, column>>}

MarkedCells(cell, size) ==
    LET column == cell \div size
        row == cell % size
    IN  {<<row, column>>, <<row, size - column - 1>>}

\* line 310: range(size * (size // 2 + size % 2))
Cells(size) == 0..(size * ((size \div 2) + (size % 2)) - 1)

\* lines 310-322: the loop over the cells of the left half (rounded up),
\* reading bit `cell` of data[1:].  Every cell is visited, so an index past
\* the end raises IndexError; an iteration only ever sets entries, so an
\* entry ends up set exactly when some iteration marked it.
CellLoop(size, rest) ==
    IF \E cell \in Cells(size) : ~BitInRange(cell, rest)
    THEN [raised |-> "IndexError", matrix |-> EmptyMatrix(size)]
    ELSE [raised |-> "none",
          matrix |-> [row \in 0..(size - 1) |-> [column \in 0..(size - 1) |->
                        \E cell \in Cells(size) :
                            /\ _get_bit(cell, rest)
                            /\ <<row, column>> \in MarkedCells(cell, size)]]]

\* lines 330-333: the rectangle (x1, y1, x2, y2) of the block at (row, column)
\* (variant: the far corner is one pixel into the next block)
BlockRect_NoMinusOne(padding, block_size, row, column) ==
    [x1 |-> padding + column * block_size,
     y1 |-> padding + row * block_size,
     x2 |-> padding + (column + 1) * block_size,
     y2 |-> padding + (row + 1) * block_size]

BlockRect(padding, block_size, row, column) ==
    [x1 |-> padding + column * block_size,
     y1 |-> padding + row * block_size,
     x2 |-> padding + (column + 1) * block_size - 1,
     y2 |-> padding + (row + 1) * block_size - 1]

\* str.lower() on the format names the model uses
Lower(format) ==
    IF format = "JPEG" THEN "jpeg" ELSE IF format = "PNG" THEN "png" ELSE format

\* the formats the image library saves (image.save raises KeyError otherwise)
SavedFormats == {"png", "jpeg", "jpg", "PNG", "JPEG"}

Raised(error) ==
    [raised |-> error, foreground |-> "", background |-> "", matrix |-> <<>>,
     rects |-> {}, mode |-> "", edge |-> 0]

\* PixelGenerator.generate(data, avatar_size, padding): what is drawn.  The
\* encoded bytes are the image library's; the result keeps the colours, the
\* matrix, the filled rectangles, the pixel mode and the edge of the buffer.
generate(self, data, avatar_size, padding) ==
    LET bl == _data_to_byte_list(data) IN
    IF bl.raised # "none" THEN Raised("ValueError")
    ELSE IF Len(bl.value) = 0 THEN Raised("IndexError")
    ELSE IF Len(self.foreground_colors) = 0 THEN Raised("ZeroDivisionError")
    ELSE
      LET colors == SelectColors(self, bl.value)
          loop == CellLoop(self.size, Tail(bl.value))
          block_size == avatar_size \div self.size
      IN  IF loop.raised # "none" THEN Raised(loop.raised)
          ELSE IF self.format \notin SavedFormats THEN Raised("UnsupportedFormat")
          ELSE [raised |-> "none",
                foreground |-> colors.foreground,
                background |-> colors.background,
                matrix |-> loop.matrix,
                rects |-> {BlockRect(padding, block_size, row, column) :
                             <<row, column>> \in
                               {rc \in (0..(self.size - 1)) \X (0..(self.size - 1)) :
                                  loop.matrix[rc[1]][rc[2]]}},
                mode |-> IF Lower(self.format) \in {"jpg", "jpeg"} THEN "RGB" ELSE "RGBA",
                edge |-> avatar_size + padding * 2]

(***************************************************************************)
(* preprocessors/base.py and preprocessors/hash.py                         *)
(***************************************************************************)
RECURSIVE Sum(_)
Sum(seq) == IF seq = <<>> THEN 0 ELSE Head(seq) + Sum(Tail(seq))

RECURSIVE Flatten(_)
Flatten(seqs) == IF seqs = <<>> THEN <<>> ELSE Head(seqs) \o Flatten(Tail(seqs))

\* str.encode(encoding) for "utf-8" and "ascii" (code points below 2048)
Encode(data, encoding) ==
    IF encoding = "ascii" /\ \E i \in 1..Len(data) : data[i] >= 128
    THEN [raised |-> "UnicodeEncodeError", value |-> <<>>]
    ELSE [raised |-> "none",
          value |-> Flatten([i \in 1..Len(data) |->
                       IF data[i] < 128 THEN <<data[i]>>
                       ELSE <<192 + (data[i] \div 64), 128 + (data[i] % 64)>>])]

\* the injected hash functions: hashlib.md5, hashlib.sha1, and a hash with a
\* chosen digest size (hashlib.blake2b with digest_size = d)
NoHash == [name |-> "none", digest_size |-> 0]
hashlib_md5 == [name |-> "md5", digest_size |-> 16]
hashlib_sha1 == [name |-> "sha1", digest_size |-> 20]
hashlib_blake2b(d) == [name |-> "blake2b", digest_size |-> d]

Salt(hash_func) ==
    IF hash_func.name = "md5" THEN 17 ELSE IF hash_func.name = "sha1" THEN 101 ELSE 59

\* hash_func(bytes).hexdigest().  The hash library is outside the repository:
\* a fixed function of the bytes with the library's digest size stands for it.
hexdigest(hash_func, bytes) ==
    LET total == Sum(bytes) IN
    ToHex([i \in 1..hash_func.digest_size |->
             (Salt(hash_func) + (2 * i + 1) * total + 31 * Len(bytes) + 97 * i) % 256])

\* "test"
TestString == <<116, 101, 115, 116>>

\* HashPreprocessor.calc_entropy: 4 bits for every character of a hexdigest
\* (variant: a hex character is counted as a byte)
HexEntropy_EightPerChar(digest) == Len(digest) * 8

HexEntropy(digest) == Len(digest) * 4

calc_entropy(hash_func) ==
    HexEntropy(hexdigest(hash_func, Encode(TestString, "utf-8").value))

BasePreprocessor ==
    [cls |-> "BasePreprocessor", hash_func |-> NoHash, encoding |-> "", entropy |-> 0]

HashPreprocessor(hash_func, encoding) ==
    [cls |-> "HashPreprocessor", hash_func |-> hash_func, encoding |-> encoding,
     entropy |-> calc_entropy(hash_func)]

MD5Preprocessor(encoding) ==
    [HashPreprocessor(hashlib_md5, encoding) EXCEPT !.cls = "MD5Preprocessor"]

SHA1Preprocessor(encoding) ==
    [HashPreprocessor(hashlib_sha1, encoding) EXCEPT !.cls = "SHA1Preprocessor"]

\* preprocessor.process(data): BasePreprocessor.process calls check_data, which
\* raises NotImplementedError; HashPreprocessor.process encodes and hashes
process(self, data) ==
    IF self.cls = "BasePreprocessor"
    THEN [raised |-> "NotImplementedError", value |-> <<>>]
    ELSE LET encoded == Encode(data, self.encoding) IN
         IF encoded.raised # "none"
         THEN [raised |-> encoded.raised, value |-> <<>>]
         ELSE [raised |-> "none", value |-> hexdigest(self.hash_func, encoded.value)]

(***************************************************************************)
(* main.py: the state after import.  The default arguments of              *)
(* Identicon.__init__ are evaluated once, when the function is defined:    *)
(* list object 1 is [MD5Preprocessor()], generator object 1 is             *)
(* PixelGenerator().                                                       *)
(***************************************************************************)
DefaultList == 1
DefaultGen == 1

NoCall ==
    [done |-> FALSE, data |-> <<>>, avatar_size |-> 0, padding |-> 0,
     result |-> Raised("none")]

IdleCaller ==
    [pc |-> "idle", self |-> 0, arg |-> <<>>, data |-> <<>>, i |-> 0,
     trace |-> <<>>, raised |-> "none", result |-> Raised("none")]

InitPipeline ==
    /\ lists = <<  <<MD5Preprocessor("utf-8")>>  >>
    /\ gens = <<DefaultGenerator>>
    /\ identicons = <<>>
    /\ built = <<>>
    /\ callers = [c \in 1..NumCallers |-> IdleCaller]

pipelineVars == <<lists, gens, identicons, built, callers>>

(***************************************************************************)
(* Direct use of a PixelGenerator: gen.generate(data, avatar_size, padding) *)
(***************************************************************************)
GenerateCall(Datas, AvatarSizes, Paddings) ==
    \E data \in Datas, avatar_size \in AvatarSizes, padding \in Paddings :
        /\ ~call.done
        /\ call' = [done |-> TRUE, data |-> data, avatar_size |-> avatar_size,
                    padding |-> padding,
                    result |-> generate(gen, data, avatar_size, padding)]
        /\ UNCHANGED <<gen, pipelineVars>>

\* the caller drops the returned avatar; nothing of the call is kept
Discard ==
    /\ call.done
    /\ call' = NoCall
    /\ UNCHANGED <<gen, pipelineVars>>

HexByte(b) == <<HexChar(b \div 16), HexChar(b % 16)>>

Repeat(seq, n) == Flatten([i \in 1..n |-> seq])

Palettes == {SubSeq(HTML_COLORS, 1, k) : k \in 1..MaxPalette} \cup {HTML_COLORS}
Backgrounds == {"#00000000", "#FFFFFF"}

\* ---- colour selection: every leading byte, a fixed remainder
ColorData == {HexByte(b) \o Repeat(HexByte(165), 2) : b \in 0..255}

InitColor ==
    /\ gen \in {PixelGenerator(5, palette, background, "png", invert) :
                  palette \in Palettes, background \in Backgrounds, invert \in BOOLEAN}
    /\ call = NoCall
    /\ InitPipeline

NextColor ==
    \/ GenerateCall(ColorData, {DefaultAvatarSize}, {DefaultPadding})
    \/ Discard

SpecColor == InitColor /\ [][NextColor]_vars

\* ---- grid: every remainder byte, and pairs of remainder bytes from samples
ByteSamples == {0, 1, 2, 4, 8, 16, 32, 64, 128, 85, 170, 255}

GridData ==
    {HexByte(b0) \o HexByte(b1) : b0 \in {0, 255}, b1 \in 0..255}
    \cup {HexByte(b0) \o HexByte(b1) \o HexByte(b2) \o Repeat(HexByte(b1), MaxGridSize) :
            b0 \in {0, 255}, b1 \in ByteSamples, b2 \in ByteSamples}

InitGrid ==
    /\ gen \in {PixelGenerator(size, HTML_COLORS, "#00000000", "png", FALSE) :
                  size \in 1..MaxGridSize}
    /\ call = NoCall
    /\ InitPipeline

NextGrid ==
    \/ GenerateCall(GridData, {DefaultAvatarSize}, {DefaultPadding})
    \/ Discard

SpecGrid == InitGrid /\ [][NextGrid]_vars

\* ---- blocks: avatar sizes and paddings, digests long enough for every size
NeededBytes(size) == 1 + ((size * ((size + 1) \div 2) + 7) \div 8)

RasterData ==
    {Repeat(HexByte(255), NeededBytes(MaxEntropySize)),
     Repeat(HexByte(165) \o HexByte(60), NeededBytes(MaxEntropySize))}

InitRaster ==
    /\ gen \in {PixelGenerator(size, HTML_COLORS, "#00000000", format, FALSE) :
                  size \in 1..MaxEntropySize, format \in {"png", "JPEG"}}
    /\ call = NoCall
    /\ InitPipeline

NextRaster ==
    \/ GenerateCall(RasterData, (1..MaxAvatar) \cup {120, 122}, 0..MaxPadding)
    \/ Discard

SpecRaster == InitRaster /\ [][NextRaster]_vars

\* ---- index bounds: hex strings of every length 0..MaxHexLen
RECURSIVE HexStrings(_)
HexStrings(n) ==
    IF n = 0 THEN {<<>>}
    ELSE {Append(s, c) : s \in HexStrings(n - 1), c \in {48, 102}}

BoundsData == UNION {HexStrings(n) : n \in 0..MaxHexLen}

InitBounds ==
    /\ gen \in {PixelGenerator(size, HTML_COLORS, "#00000000", "png", FALSE) :
                  size \in 1..MaxGridSize}
    /\ call = NoCall
    /\ InitPipeline

NextBounds ==
    \/ GenerateCall(BoundsData, {DefaultAvatarSize}, {DefaultPadding})
    \/ Discard

SpecBounds == InitBounds /\ [][NextBounds]_vars

(***************************************************************************)
(* main.py: Identicon                                                      *)
(***************************************************************************)
\* what an Identicon holds, through its references
View(s) ==
    [preprocessors |-> lists[identicons[s].preprocessors],
     generator |-> gens[identicons[s].generator],
     check_entropy |-> identicons[s].check_entropy]

\* Identicon.__init__(preprocessors, generator, check_entropy).  An omitted
\* argument is the default object made at import; a list the caller passes is
\* a new object; `preprocessors or []` replaces an empty list by a new one.
Construct(PreArgs, GenArgs, Checks, cap) ==
    /\ Len(identicons) < cap
    /\ \E pre \in PreArgs, g \in GenArgs, check \in Checks :
        /\ g.kind # "None"
        /\ LET passed == IF pre.kind = "default" THEN lists[DefaultList] ELSE pre.value
               newList == (pre.kind # "default") \/ (passed = <<>>)
           IN  /\ lists' = IF newList THEN Append(lists, passed) ELSE lists
               /\ gens' = IF g.kind = "default" THEN gens ELSE Append(gens, g.value)
               /\ identicons' = Append(identicons,
                     [preprocessors |-> IF newList THEN Len(lists) + 1 ELSE DefaultList,
                      generator |-> IF g.kind = "default" THEN DefaultGen ELSE Len(gens) + 1,
                      check_entropy |-> check])
               /\ built' = Append(built,
                     [defaults |-> (pre.kind = "default" /\ g.kind = "default"),
                      touched |-> FALSE])
    /\ UNCHANGED <<gen, call, callers>>

\* Identicon.__init__ with generator=None: ValueError, nothing is built
ConstructFails(GenArgs) ==
    /\ \E g \in GenArgs : g.kind = "None"
    /\ UNCHANGED vars

\* lines 51-55: the list is non-empty, checking is on, and the generator
\* rejects the entropy of the last preprocessor
EntropyGateFails(s) ==
    LET preprocessors == lists[identicons[s].preprocessors]
        last_preprocessor == preprocessors[Len(preprocessors)]
    IN  /\ preprocessors # <<>>
        /\ identicons[s].check_entropy
        /\ ~check_entropy(gens[identicons[s].generator], last_preprocessor.entropy)

\* Identicon.generate(data), lines 51-58: the call and its entropy gate.
\* The ValueError of line 56 is recorded as "InsufficientEntropy".
Call(c, Datas) ==
    \E s \in 1..Len(identicons), data \in Datas :
        /\ callers[c].pc = "idle"
        /\ callers' = [callers EXCEPT ![c] =
              [IdleCaller EXCEPT
                 !.self = s, !.arg = data, !.data = data,
                 !.pc = IF EntropyGateFails(s) THEN "raised"
                        ELSE IF lists[identicons[s].preprocessors] # <<>> THEN "loop"
                        ELSE "generator",
                 !.raised = IF EntropyGateFails(s) THEN "InsufficientEntropy" ELSE "none"]]
        /\ UNCHANGED <<gen, call, lists, gens, identicons, built>>

\* lines 59-60: one iteration of `for preprocessor in self.preprocessors`,
\* given the value handed to process; the iterator reads the list object at
\* every step
ProcessWith(c, input) ==
    LET me == callers[c]
        preprocessors == lists[identicons[me.self].preprocessors]
    IN  /\ me.pc = "loop"
        /\ me.i < Len(preprocessors)
        /\ LET out == process(preprocessors[me.i + 1], input)
               event == [op |-> "process", index |-> me.i + 1, input |-> input,
                         raised |-> out.raised]
           IN  callers' = [callers EXCEPT ![c] =
                  [me EXCEPT !.i = me.i + 1,
                             !.trace = Append(me.trace, event),
                             !.data = IF out.raised = "none" THEN out.value ELSE me.data,
                             !.raised = out.raised,
                             !.pc = IF out.raised = "none" THEN "loop" ELSE "raised"]]
        /\ UNCHANGED <<gen, call, lists, gens, identicons, built>>

\* (variant: every preprocessor is handed the raw input)
ProcessStep_RawInput(c) == ProcessWith(c, callers[c].arg)

ProcessStep(c) == ProcessWith(c, callers[c].data)

\* line 61: return self.generator.generate(data), reached when the list was
\* empty at line 51 or the iterator of line 59 finds its index at the end;
\* given what the generator objects are afterwards (generate assigns no
\* attribute)
GenerateWith(c, gensAfter) ==
    LET me == callers[c]
        result == generate(gens[identicons[me.self].generator], me.data,
                           DefaultAvatarSize, DefaultPadding)
        event == [op |-> "generate", index |-> 0, input |-> me.data,
                  raised |-> result.raised]
    IN  /\ \/ me.pc = "generator"
           \/ me.pc = "loop" /\ me.i >= Len(lists[identicons[me.self].preprocessors])
        /\ callers' = [callers EXCEPT ![c] =
              [me EXCEPT !.trace = Append(me.trace, event),
                         !.result = result,
                         !.raised = result.raised,
                         !.pc = IF result.raised = "none" THEN "returned" ELSE "raised"]]
        /\ gens' = gensAfter
        /\ UNCHANGED <<gen, call, lists, identicons, built>>

\* (variant: the swap of lines 290-291 is written into the generator)
GeneratorStep_StoresSwap(c) ==
    LET g == identicons[callers[c].self].generator
        bytes == _data_to_byte_list(callers[c].data)
    IN  GenerateWith(c,
            IF gens[g].invert /\ bytes.raised = "none" /\ bytes.value # <<>>
            THEN [gens EXCEPT ![g].background =
                    SelectColors(gens[g], bytes.value).background]
            ELSE gens)

GeneratorStep(c) == GenerateWith(c, gens)

\* the caller takes the avatar (or the exception); its frame is gone
Return(c) ==
    /\ callers[c].pc \in {"returned", "raised"}
    /\ callers' = [callers EXCEPT ![c] = IdleCaller]
    /\ UNCHANGED <<gen, call, lists, gens, identicons, built>>

\* a caller's own code: identicon.preprocessors.append(p)
AppendPreprocessor(s, p) ==
    /\ Len(lists[identicons[s].preprocessors]) < MaxChain
    /\ lists' = [lists EXCEPT ![identicons[s].preprocessors] = Append(@, p)]
    /\ built' = [built EXCEPT ![s].touched = TRUE]
    /\ UNCHANGED <<gen, call, gens, identicons, callers>>

\* a caller's own code: identicon.generator.invert = v
SetInvert(s, v) ==
    /\ gens[identicons[s].generator].invert # v
    /\ gens' = [gens EXCEPT ![identicons[s].generator].invert = v]
    /\ built' = [built EXCEPT ![s].touched = TRUE]
    /\ UNCHANGED <<gen, call, lists, identicons, callers>>

\* "e-acute" (not ASCII), "ff80" (hex digits)
Inputs == {<<233>>, <<102, 102, 56, 48>>}

Default == [kind |-> "default"]
Explicit(v) == [kind |-> "new", value |-> v]

RECURSIVE Chains(_, _)
Chains(S, n) ==
    IF n = 0 THEN {<<>>}
    ELSE Chains(S, n - 1) \cup {Append(chain, p) : chain \in Chains(S, n - 1), p \in S}

\* ---- one Identicon of any configuration, concurrent callers
PreChoices ==
    {MD5Preprocessor("utf-8"), BasePreprocessor,
     HashPreprocessor(hashlib_blake2b(2), "ascii")}

PreArgs == {Default} \cup {Explicit(chain) : chain \in Chains(PreChoices, MaxChain)}

GenArgs ==
    {Default, [kind |-> "None"]}
    \cup {Explicit(PixelGenerator(4, SubSeq(HTML_COLORS, 1, 3), "#FFFFFF", "png", TRUE))}

InitIdle ==
    /\ gen = DefaultGenerator
    /\ call = NoCall
    /\ InitPipeline

Next ==
    \/ Construct(PreArgs, GenArgs, BOOLEAN, 1)
    \/ ConstructFails(GenArgs)
    \/ \E c \in 1..NumCallers : Call(c, Inputs)
    \/ \E c \in 1..NumCallers : ProcessStep(c)
    \/ \E c \in 1..NumCallers : GeneratorStep(c)
    \/ \E c \in 1..NumCallers : Return(c)

Spec == InitIdle /\ [][Next]_vars

\* ---- Identicons built with and without the defaults, and callers that
\* change what their own Identicon refers to
PreArgsShared == {Default, Explicit(<<>>)}

GenArgsShared ==
    {Default, [kind |-> "None"],
     Explicit(PixelGenerator(4, HTML_COLORS, "#FFFFFF", "png", FALSE))}

NextShared ==
    \/ Construct(PreArgsShared, GenArgsShared, {TRUE}, MaxIdenticons)
    \/ ConstructFails(GenArgsShared)
    \/ \E s \in 1..Len(identicons) : AppendPreprocessor(s, SHA1Preprocessor("utf-8"))
    \/ \E s \in 1..Len(identicons), v \in BOOLEAN : SetInvert(s, v)
    \/ Call(1, {<<97, 64, 98>>})
    \/ ProcessStep(1)
    \/ GeneratorStep(1)
    \/ Return(1)

SpecShared == InitIdle /\ [][NextShared]_vars

(***************************************************************************)
(* Properties of the direct calls.                                         *)
(***************************************************************************)
Returned == call.done /\ call.result.raised = "none"

\* ceil(size / 2): the least m with 2 * m >= size
CeilHalf(size) == CHOOSE m \in 0..size : 2 * m >= size /\ 2 * (m - 1) < size

\* the digest bytes of a string of hex digits, one byte per two digits
DigestBytes(data) ==
    [i \in 1..(Len(data) \div 2) |-> 16 * HexVal(data[2 * i - 1]) + HexVal(data[2 * i])]

\* bit i of a byte sequence, most significant bit of each byte first
Bit(B, i) == (B[(i \div 8) + 1] \div (2 ^ (7 - (i % 8)))) % 2

Min(a, b) == IF a <= b THEN a ELSE b

\* C1: every grid generate has built is mirror-symmetric about the vertical
\* centre: grid[r][c] = grid[r][n-1-c] for all rows r and columns c, for odd
\* and even n.
C1_Symmetry ==
    Returned =>
        \A r \in 0..(gen.size - 1), c \in 0..(gen.size - 1) :
            call.result.matrix[r][c] = call.result.matrix[r][gen.size - 1 - c]

\* an even grid with a marked cell off the centre and an unmarked cell
C1_Witness ==
    /\ Returned
    /\ gen.size = 4
    /\ call.result.matrix[2][0]
    /\ call.result.matrix[2][3]
    /\ ~call.result.matrix[1][1]

\* C4: the required entropy a PixelGenerator declares is
\* ceil(size/2) * size + 8 for every size in 1..10 (23 for size 5, 16 for
\* size 4), before and after any generate call.
C4_EntropyFormula ==
    /\ gen.entropy = CeilHalf(gen.size) * gen.size + 8
    /\ gen.size = 5 => gen.entropy = 23
    /\ gen.size = 4 => gen.entropy = 16

\* an odd size, after a generate call
C4_Witness == call.done /\ gen.size = 5 /\ gen.entropy = 23

\* C5: with invert unset the colours are (palette[b mod k], background) for
\* the leading digest byte b and a palette of k colours; with invert set
\* they are the same two colours swapped.
C5_ColorSelection ==
    Returned =>
        LET b == DigestBytes(call.data)[1]
            k == Len(gen.foreground_colors)
            chosen == gen.foreground_colors[(b % k) + 1]
        IN  IF gen.invert
            THEN /\ call.result.foreground = gen.background
                 /\ call.result.background = chosen
            ELSE /\ call.result.foreground = chosen
                 /\ call.result.background = gen.background

\* the wrap: leading byte k of a palette of k = 3 colours, inverted
C5_Witness ==
    /\ Returned
    /\ gen.invert
    /\ Len(gen.foreground_colors) = 3
    /\ DigestBytes(call.data)[1] = 3
    /\ call.result.background = gen.foreground_colors[1]
    /\ call.result.foreground = gen.background

RectInside(rect) ==
    LET block_size == call.avatar_size \div gen.size
        low == call.padding
        high == call.padding + gen.size * block_size - 1
    IN  /\ rect.x1 <= rect.x2
        /\ rect.y1 <= rect.y2
        /\ low <= rect.x1 /\ rect.x2 <= high
        /\ low <= rect.y1 /\ rect.y2 <= high
        /\ high <= call.result.edge - call.padding - 1
        /\ 0 <= low /\ high <= call.result.edge - 1

\* C6 as stated: for every avatar_size the grid size does not divide,
\* generate returns and every filled rectangle is well-formed and inside
\* [padding, padding + size * blockSize - 1] on both axes.
C6_AsStated ==
    (call.done /\ call.avatar_size % gen.size # 0) =>
        /\ call.result.raised = "none"
        /\ \A rect \in call.result.rects : RectInside(rect)

\* C6: the same for every avatar_size that is at least the grid size (and
\* padding that is not negative): the rectangles then also lie inside the
\* buffer of edge avatar_size + 2 * padding, clear of the padding border and
\* of the avatar_size mod size pixels left at the high edge.
C6_TruncatedBlocks ==
    (call.done /\ call.avatar_size % gen.size # 0 /\ call.avatar_size >= gen.size) =>
        /\ call.result.raised = "none"
        /\ \A rect \in call.result.rects : RectInside(rect)

\* size 5, avatar_size 122, padding 2: the last block ends at 2 + 5*24 - 1
C6_Witness ==
    /\ Returned
    /\ gen.size = 5 /\ call.avatar_size = 122 /\ call.padding = 2
    /\ \E rect \in call.result.rects : rect.x2 = 121 /\ rect.x1 = 98

\* C8: grid[r][c] is set exactly when bit min(c, n-1-c) * n + r of the digest
\* bytes after the first is 1 (most significant bit first); these indices
\* are below n * ceil(n/2) and none lies in the first byte.
C8_BitIndexing ==
    Returned =>
        LET n == gen.size
            B == Tail(DigestBytes(call.data))
        IN  \A r \in 0..(n - 1), c \in 0..(n - 1) :
              /\ Min(c, n - 1 - c) * n + r < n * CeilHalf(n)
              /\ call.result.matrix[r][c] <=> (Bit(B, Min(c, n - 1 - c) * n + r) = 1)

\* size 5 and remainder bytes 0x01 0x02: bits 7 and 14 only, so cells
\* (row 2, column 1) and (row 4, column 2), with the mirror of the first
C8_Witness ==
    /\ Returned
    /\ gen.size = 5
    /\ DigestBytes(call.data)[2] = 1 /\ DigestBytes(call.data)[3] = 2
    /\ call.result.matrix[2][1] /\ call.result.matrix[2][3]
    /\ call.result.matrix[4][2]
    /\ ~call.result.matrix[0][0]

\* the entropy a preprocessor declares for a digest like call.data passes
GatePasses == check_entropy(gen, HexEntropy(call.data))

\* C9 as stated: for every hex digest length L, when the gate passes
\* (4 * L >= ceil(n/2) * n + 8) the generator reads no index out of range.
C9_AsStated == (call.done /\ GatePasses) => call.result.raised # "IndexError"

\* C9: the same for every even hex digest length (a whole number of bytes).
C9_GateProtects ==
    (call.done /\ GatePasses /\ Len(call.data) % 2 = 0) =>
        call.result.raised # "IndexError"

\* the boundary: size 4 needs 16 bits, a digest of 4 hex characters has 16
C9_Witness ==
    /\ Returned
    /\ gen.size = 4 /\ Len(call.data) = 4
    /\ HexEntropy(call.data) = gen.entropy

(***************************************************************************)
(* Properties of Identicon.generate.                                       *)
(***************************************************************************)
Finished(c) == callers[c].pc \in {"returned", "raised"}

\* the gate in words: a non-empty list, checking enabled, and the last
\* preprocessor's entropy strictly below what the generator requires
GateRejects(view) ==
    /\ Len(view.preprocessors) > 0
    /\ view.check_entropy
    /\ view.preprocessors[Len(view.preprocessors)].entropy < view.generator.entropy

\* what stage k of a chain is handed: the raw input, or stage k-1's output
RECURSIVE StageInput(_, _, _)
StageInput(P, x, k) ==
    IF k = 1 THEN x ELSE process(P[k - 1], StageInput(P, x, k - 1)).value

\* C2: generate fails with the insufficient-entropy error exactly when the
\* list is non-empty, checking is enabled and the last preprocessor's entropy
\* is strictly below the generator's; equal entropies pass and earlier
\* preprocessors do not matter.
C2_EntropyGate ==
    \A c \in 1..NumCallers :
        callers[c].pc # "idle" =>
            ((callers[c].raised = "InsufficientEntropy")
                <=> GateRejects(View(callers[c].self)))

\* rejected on the last preprocessor (16 bits against 23) although the first
\* one supplies 128
C2_Witness ==
    \E c \in 1..NumCallers :
        /\ callers[c].pc = "raised"
        /\ callers[c].raised = "InsufficientEntropy"
        /\ LET view == View(callers[c].self) IN
             /\ Len(view.preprocessors) = 2
             /\ view.preprocessors[1].entropy = 128
             /\ view.preprocessors[2].entropy = 16
             /\ view.generator.entropy = 23

\* the invocations so far are the stages 1, 2, ... in order, each handed the
\* previous stage's output, the generator after the last preprocessor, and
\* nothing after a stage that raised
InOrder(c) ==
    LET trace == callers[c].trace
        P == View(callers[c].self).preprocessors
    IN  /\ Len(trace) <= Len(P) + 1
        /\ \A k \in 1..Len(trace) :
             /\ trace[k].op = IF k <= Len(P) THEN "process" ELSE "generate"
             /\ trace[k].index = IF k <= Len(P) THEN k ELSE 0
             /\ trace[k].input = StageInput(P, callers[c].arg, k)
             /\ k < Len(trace) => trace[k].raised = "none"

Complete(c) ==
    /\ InOrder(c)
    /\ Len(callers[c].trace) = Len(View(callers[c].self).preprocessors) + 1

\* C3 as stated: a failing gate precedes every invocation; once the gate has
\* passed or been skipped, a finished call has invoked every preprocessor
\* once, in order, each on the previous output, and then the generator once.
C3_AsStated ==
    \A c \in 1..NumCallers :
        /\ callers[c].raised = "InsufficientEntropy" => callers[c].trace = <<>>
        /\ (Finished(c) /\ callers[c].raised # "InsufficientEntropy") => Complete(c)

\* C3: a failing gate precedes every invocation; otherwise the stages are
\* invoked in order, at most once each, each on the previous output, up to
\* the first that raises: a call that returns, and a call in which no
\* preprocessor raised, has invoked every preprocessor once and then the
\* generator once; a call a preprocessor raised in has invoked nothing after.
C3_Ordering ==
    \A c \in 1..NumCallers :
        LET me == callers[c] IN
        /\ me.raised = "InsufficientEntropy" => me.trace = <<>>
        /\ me.pc # "idle" => InOrder(c)
        /\ me.pc = "returned" => Complete(c)
        /\ (me.pc = "raised" /\ me.raised # "InsufficientEntropy") =>
             /\ me.trace # <<>>
             /\ me.trace[Len(me.trace)].raised = me.raised
        /\ (Finished(c) /\ me.raised # "InsufficientEntropy"
              /\ \A k \in 1..Len(me.trace) :
                   me.trace[k].op = "process" => me.trace[k].raised = "none")
             => Complete(c)

\* a returned call through a chain of two: process, process, generate
C3_Witness ==
    \E c \in 1..NumCallers :
        /\ callers[c].pc = "returned"
        /\ Len(callers[c].trace) = 3
        /\ callers[c].trace[2].op = "process"
        /\ callers[c].trace[2].input # callers[c].arg
        /\ callers[c].trace[3].op = "generate"

\* generate(x) as a function of a configuration and the input alone
RunChain(view, x) ==
    LET P == view.preprocessors
        failing == {k \in 1..Len(P) : process(P[k], StageInput(P, x, k)).raised # "none"}
    IN  IF GateRejects(view)
        THEN [raised |-> "InsufficientEntropy", result |-> Raised("none")]
        ELSE IF failing # {}
        THEN LET k == CHOOSE k \in failing : \A j \in failing : k <= j
             IN  [raised |-> process(P[k], StageInput(P, x, k)).raised,
                  result |-> Raised("none")]
        ELSE LET result == generate(view.generator, StageInput(P, x, Len(P) + 1),
                                    DefaultAvatarSize, DefaultPadding)
             IN  [raised |-> result.raised, result |-> result]

\* C7: every finished generate(x) has the outcome (grid, colours, or error)
\* that the configuration and x alone determine, whatever calls ran before
\* or beside it, and no step of any generate changes what an Identicon, its
\* preprocessors or its generator hold.
C7_Deterministic ==
    /\ [](\A c \in 1..NumCallers :
            Finished(c) =>
                [raised |-> callers[c].raised, result |-> callers[c].result]
                    = RunChain(View(callers[c].self), callers[c].arg))
    /\ [][\A s \in 1..Len(identicons) : View(s)' = View(s)]_vars

\* two callers hold the same grid and colours for the same input, inverted
C7_Witness ==
    /\ callers[1].pc = "returned" /\ callers[2].pc = "returned"
    /\ callers[1].arg = callers[2].arg
    /\ callers[1].result = callers[2].result
    /\ View(callers[1].self).generator.invert
    /\ \E r \in 0..3 : callers[1].result.matrix[r][0]

\* C10: two Identicons built with the defaults hold distinct list and
\* generator objects, and one that its owner never changed still holds the
\* default configuration whatever was done through the other.
C10_DefaultsNotShared ==
    \A i \in 1..Len(identicons), j \in 1..Len(identicons) :
        (i # j /\ built[i].defaults /\ built[j].defaults) =>
            /\ identicons[i].preprocessors # identicons[j].preprocessors
            /\ identicons[i].generator # identicons[j].generator
            /\ ~built[j].touched =>
                 /\ View(j).preprocessors = <<MD5Preprocessor("utf-8")>>
                 /\ View(j).generator = DefaultGenerator

====
